---- MODULE Spec2Model ----
(***************************************************************************)
(* A model of the gochess position engine (package chess): the Chess       *)
(* struct, its FEN loader and serializer, the pseudo-legal move generator, *)
(* the make/unmake legality filter and the public operations               *)
(* LoadPosition, MakeMove and UnmakeMove.                                   *)
(*                                                                         *)
(* Go strings are TLA+ strings; s[i:j] is SubSeq(s, i+1, j).  Go slices    *)
(* are sequences in the order the code builds them.  A Go panic (an index  *)
(* or slice expression out of range) aborts the running operation: the     *)
(* working record carries a panic flag and the operation ends in crashed.  *)
(* A nil slice and an empty slice are both the empty sequence.             *)
(***************************************************************************)
EXTENDS Integers, Sequences, FiniteSets, TLC

VARIABLES
    board,              \* Chess.board: rows 1..8 (Y = 0..7) of squares 1..8 (X = 0..7)
    turn,               \* Chess.turn
    movesCount,         \* Chess.movesCount
    halfMoves,          \* Chess.halfMoves
    enPassantSquare,    \* Chess.enPassantSquare
    availableCastles,   \* Chess.availableCastles
    moves,              \* Chess.moves
    actualFEN,          \* Chess.actualFEN
    blackKingPosition,  \* Chess.blackKingPosition
    whiteKingPosition,  \* Chess.whiteKingPosition
    check,              \* Chess.check
    checkmate,          \* Chess.checkmate
    stalemate,          \* Chess.stalemate
    history,            \* Chess.history
    crashed,            \* TRUE once an operation has panicked
    g                   \* the last call: what was called, with what, and how it ended

progVars == <<board, turn, movesCount, halfMoves, enPassantSquare, availableCastles,
              moves, actualFEN, blackKingPosition, whiteKingPosition,
              check, checkmate, stalemate, history>>

vars == <<board, turn, movesCount, halfMoves, enPassantSquare, availableCastles,
          moves, actualFEN, blackKingPosition, whiteKingPosition,
          check, checkmate, stalemate, history, crashed, g>>

(***************************************************************************)
(* Piece codes.                                                            *)
(***************************************************************************)
White == 8
Black == 16
Empty == 0
Pawn == 1
Knight == 2
Bishop == 3
Rook == 4
Queen == 5
King == 6

\* a & b, a | b and a &^ b on piece codes
RECURSIVE BitAnd(_, _)
BitAnd(a, b) ==
    IF a = 0 \/ b = 0 THEN 0
    ELSE (a % 2) * (b % 2) + 2 * BitAnd(a \div 2, b \div 2)
BitOr(a, b) == a + b - BitAnd(a, b)
BitClear(a, b) == a - BitAnd(a, b)

Colors == [w |-> White, b |-> Black]

ColorNames == [n \in {White, Black} |-> IF n = White THEN "w" ELSE "b"]

PiecesWithoutColor(ch) ==
    CASE ch \in {"p", "P"} -> Pawn
      [] ch \in {"n", "N"} -> Knight
      [] ch \in {"b", "B"} -> Bishop
      [] ch \in {"r", "R"} -> Rook
      [] ch \in {"q", "Q"} -> Queen
      [] ch \in {"k", "K"} -> King
      [] OTHER -> 0

\* gochess.Pieces[ch]; a missing key reads as 0
Pieces(ch) ==
    CASE ch \in {"p", "n", "b", "r", "q", "k"} -> BitOr(Black, PiecesWithoutColor(ch))
      [] ch \in {"P", "N", "B", "R", "Q", "K"} -> BitOr(White, PiecesWithoutColor(ch))
      [] OTHER -> 0

\* gochess.PieceNames[p]; a missing key reads as ""
PieceNames(p) ==
    CASE p = BitOr(Black, Pawn) -> "p"   [] p = BitOr(White, Pawn) -> "P"
      [] p = BitOr(Black, Knight) -> "n" [] p = BitOr(White, Knight) -> "N"
      [] p = BitOr(Black, Bishop) -> "b" [] p = BitOr(White, Bishop) -> "B"
      [] p = BitOr(Black, Rook) -> "r"   [] p = BitOr(White, Rook) -> "R"
      [] p = BitOr(Black, Queen) -> "q"  [] p = BitOr(White, Queen) -> "Q"
      [] p = BitOr(Black, King) -> "k"   [] p = BitOr(White, King) -> "K"
      [] OTHER -> ""

(***************************************************************************)
(* Strings.                                                                *)
(***************************************************************************)
\* s[i] for a 0-based index i, as a one-character string
CharAt(s, i) == SubSeq(s, i + 1, i + 1)

\* the ASCII characters the engine's strings are made of, by code range
AsciiDigits == "0123456789"
AsciiUpper == "ABCDEFGHIJKLMNOPQRSTUVWXYZ"
AsciiLower == "abcdefghijklmnopqrstuvwxyz"

\* the character of a byte value, for digits and letters
Chr(n) ==
    IF n >= 97 THEN SubSeq(AsciiLower, n - 96, n - 96)
    ELSE IF n >= 65 THEN SubSeq(AsciiUpper, n - 64, n - 64)
    ELSE SubSeq(AsciiDigits, n - 47, n - 47)

\* the byte value of a one-character string
Ord(ch) ==
    CASE ch = " " -> 32
      [] ch = "+" -> 43
      [] ch = "-" -> 45
      [] ch = "/" -> 47
      [] OTHER -> CHOOSE n \in (48..57) \cup (65..90) \cup (97..122) : Chr(n) = ch

Digits == {"0", "1", "2", "3", "4", "5", "6", "7", "8", "9"}
DigitVal(ch) == CHOOSE d \in 0..9 : SubSeq(AsciiDigits, d + 1, d + 1) = ch

\* fmt.Sprintf("%d", n)
RECURSIVE NatToStr(_)
NatToStr(n) ==
    IF n < 10 THEN SubSeq(AsciiDigits, n + 1, n + 1)
    ELSE NatToStr(n \div 10) \o NatToStr(n % 10)
IntToStr(n) == IF n < 0 THEN "-" \o NatToStr(0 - n) ELSE NatToStr(n)

\* the value of a string of decimal digits
RECURSIVE DigitsVal(_, _)
DigitsVal(s, acc) ==
    IF s = "" THEN acc ELSE DigitsVal(Tail(s), 10 * acc + DigitVal(Head(s)))

AllDigits(s) == \A i \in 1..Len(s) : SubSeq(s, i, i) \in Digits

\* strconv.Atoi: an optional sign and at least one decimal digit
Atoi(s) ==
    LET signed == s # "" /\ Head(s) \in {"+", "-"}
        body == IF signed THEN Tail(s) ELSE s
    IN  IF body = "" \/ ~AllDigits(body)
        THEN [n |-> 0, err |-> TRUE]
        ELSE [n |-> IF signed /\ Head(s) = "-" THEN 0 - DigitsVal(body, 0) ELSE DigitsVal(body, 0),
              err |-> FALSE]

\* a string of digits without its leading zeros
RECURSIVE DropZeros(_)
DropZeros(s) == IF Len(s) > 1 /\ Head(s) = "0" THEN DropZeros(Tail(s)) ELSE s

\* whether the digits a stand for a greater number than the digits b, both
\* of the same length
RECURSIVE DigitsGreater(_, _)
DigitsGreater(a, b) ==
    IF a = "" THEN FALSE
    ELSE IF Head(a) # Head(b) THEN DigitVal(Head(a)) > DigitVal(Head(b))
    ELSE DigitsGreater(Tail(a), Tail(b))

MaxUint32 == "4294967295"

\* strconv.ParseUint(s, 10, 32): decimal digits only, at most 2^32 - 1
ParseUint(s) ==
    LET d == DropZeros(s)
    IN  IF s = "" \/ ~AllDigits(s) \/ Len(d) > Len(MaxUint32)
           \/ (Len(d) = Len(MaxUint32) /\ DigitsGreater(d, MaxUint32))
        THEN [n |-> 0, err |-> TRUE]
        ELSE [n |-> DigitsVal(s, 0), err |-> FALSE]

\* strings.Split(s, sep) for a one-character separator: the pieces between
\* the places where sep stands
Split(s, sep) ==
    LET seps == {i \in 1..Len(s) : SubSeq(s, i, i) = sep}
        nth(k) == CHOOSE p \in seps : Cardinality({q \in seps : q < p}) = k - 1
    IN  [k \in 1..(Cardinality(seps) + 1) |->
            SubSeq(s, IF k = 1 THEN 1 ELSE nth(k - 1) + 1,
                      IF k = Cardinality(seps) + 1 THEN Len(s) ELSE nth(k) - 1)]

\* strings.Join(parts, sep)
RECURSIVE Join(_, _)
Join(parts, sep) ==
    IF Len(parts) = 0 THEN ""
    ELSE IF Len(parts) = 1 THEN parts[1]
    ELSE parts[1] \o sep \o Join(Tail(parts), sep)

\* strings.Contains(s, ch) for a one-character ch
StrContains(s, ch) == \E i \in 1..Len(s) : SubSeq(s, i, i) = ch

\* strings.ReplaceAll(s, ch, "") for a one-character ch
RECURSIVE RemoveChar(_, _)
RemoveChar(s, ch) ==
    IF s = "" THEN ""
    ELSE IF Head(s) = ch THEN RemoveChar(Tail(s), ch)
    ELSE Head(s) \o RemoveChar(Tail(s), ch)

\* cmp.Or(s, dflt) on strings
CmpOr(s, dflt) == IF s # "" THEN s ELSE dflt

\* slices.Contains
Contains(list, x) == \E i \in 1..Len(list) : list[i] = x

\* the lists f[lo], ..., f[hi] appended one after the other
RECURSIVE AppendAll(_, _, _)
AppendAll(f, lo, hi) ==
    IF lo > hi THEN <<>>
    ELSE IF lo = hi THEN f[lo]
    ELSE AppendAll(f, lo, (lo + hi) \div 2) \o AppendAll(f, (lo + hi) \div 2 + 1, hi)

(***************************************************************************)
(* Coordinates and the board.                                              *)
(***************************************************************************)
Coor(x, y) == [X |-> x, Y |-> y]

isValidCoordinate(c) == c.X >= 0 /\ c.X < 8 /\ c.Y >= 0 /\ c.Y < 8

\* Board.Square: the piece and whether the coordinate was rejected
Square(b, c) ==
    IF ~isValidCoordinate(c) THEN [p |-> Empty, err |-> TRUE]
    ELSE [p |-> b[c.Y + 1][c.X + 1], err |-> FALSE]

SetSquare(b, c, p) ==
    IF ~isValidCoordinate(c) THEN b
    ELSE [b EXCEPT ![c.Y + 1][c.X + 1] = p]

BoardMakeMove(b, origin, target) ==
    IF ~isValidCoordinate(origin) THEN b
    ELSE IF ~isValidCoordinate(target) THEN b
    ELSE [[b EXCEPT ![target.Y + 1][target.X + 1] = b[origin.Y + 1][origin.X + 1]]
             EXCEPT ![origin.Y + 1][origin.X + 1] = Empty]

DefaultChessBoard ==
    << <<20, 18, 19, 21, 22, 19, 18, 20>>,
       <<17, 17, 17, 17, 17, 17, 17, 17>>,
       <<0, 0, 0, 0, 0, 0, 0, 0>>,
       <<0, 0, 0, 0, 0, 0, 0, 0>>,
       <<0, 0, 0, 0, 0, 0, 0, 0>>,
       <<0, 0, 0, 0, 0, 0, 0, 0>>,
       <<9, 9, 9, 9, 9, 9, 9, 9>>,
       <<12, 10, 11, 13, 14, 11, 10, 12>> >>

\* AlgebraicToCoordinate: byte arithmetic wraps modulo 256
AlgebraicToCoordinate(s) ==
    IF Len(s) # 2 THEN [coor |-> Coor(0, 0), err |-> TRUE]
    ELSE LET at(x, y) ==
                 IF x < 0 \/ x > 7 \/ y < 0 \/ y > 7
                 THEN [coor |-> Coor(0, 0), err |-> TRUE]
                 ELSE [coor |-> Coor(x, y), err |-> FALSE]
         IN  at((Ord(CharAt(s, 0)) - 97) % 256, 8 - ((Ord(CharAt(s, 1)) - 48) % 256))

\* CoordinateToAlgebraic counting the ranks from Y = 0 upwards
CoordinateToAlgebraicFromBelow(c) ==
    IF c.X > 7 \/ c.Y > 7 \/ c.X < 0 \/ c.Y < 0 THEN ""
    ELSE Chr(97 + c.X) \o IntToStr(c.Y + 1)

CoordinateToAlgebraic(c) ==
    IF c.X > 7 \/ c.Y > 7 \/ c.X < 0 \/ c.Y < 0 THEN ""
    ELSE Chr(97 + c.X) \o IntToStr(8 - c.Y)

\* UCI(origin, target): the call without a piece
UCI(origin, target) == CoordinateToAlgebraic(origin) \o CoordinateToAlgebraic(target)

\* UCI(origin, target, piece): the call with the piece to promote to
UCIPromotion(origin, target, piece) ==
    UCI(origin, target) \o PieceNames(BitOr(BitClear(piece, White), Black))

(***************************************************************************)
(* The pseudo-legal move generator.  c is the Chess struct as a record.    *)
(***************************************************************************)
castlesMoves == [e1g1 |-> White, e1c1 |-> White, e8g8 |-> Black, e8c8 |-> Black]

castleKingWay == [e1g1 |-> Coor(5, 7), e1c1 |-> Coor(3, 7), e8g8 |-> Coor(5, 0), e8c8 |-> Coor(3, 0)]

castleRook == [e1g1 |-> Coor(7, 7), e1c1 |-> Coor(0, 7), e8g8 |-> Coor(7, 0), e8c8 |-> Coor(0, 0)]

\* the color bits of the piece on origin: p & (White | Black)
colorAt(c, origin) == BitAnd(Square(c.board, origin).p, BitOr(White, Black))

promotionPosibilities(origin, target) ==
    [i \in 1..4 |-> UCIPromotion(origin, target, <<Queen, Rook, Bishop, Knight>>[i])]

\* the body of the loop of pawnCaptureMoves, for the target square tCor
pawnCapture(c, origin, isPromotion, pColor, tCor) ==
    IF tCor.X < 0 \/ tCor.X > 7 \/ tCor.Y < 0 \/ tCor.Y > 7 THEN <<>>
    ELSE IF CoordinateToAlgebraic(tCor) = c.enPassantSquare THEN <<UCI(origin, tCor)>>
    ELSE IF Square(c.board, tCor).p = Empty \/ BitAnd(Square(c.board, tCor).p, pColor) # Empty
    THEN <<>>
    ELSE IF ~isPromotion THEN <<UCI(origin, tCor)>>
    ELSE promotionPosibilities(origin, tCor)

\* the loop of pawnCaptureMoves over the offsets, from offset number k on
RECURSIVE pawnCaptureFrom(_, _, _, _, _, _, _)
pawnCaptureFrom(c, origin, isPromotion, pColor, dir, offsets, k) ==
    IF k > Len(offsets) THEN <<>>
    ELSE pawnCapture(c, origin, isPromotion, pColor,
                     Coor(origin.X + offsets[k], origin.Y + 1 * dir))
         \o pawnCaptureFrom(c, origin, isPromotion, pColor, dir, offsets, k + 1)

pawnCaptureMoves(c, origin, isPromotion) ==
    pawnCaptureFrom(c, origin, isPromotion, colorAt(c, origin),
                    IF colorAt(c, origin) = Black THEN 1 ELSE -1, <<-1, 1>>, 1)

\* pawnMoves once the direction of the pawn is known
pawnPushMoves(c, origin, dir) ==
    LET tCor == Coor(origin.X, origin.Y + 1 * dir)
        tCor2 == Coor(origin.X, origin.Y + 2 * dir)
        isPromotion == origin.Y + 1 * dir = 7 \/ origin.Y + 1 * dir = 0
    IN  pawnCaptureMoves(c, origin, isPromotion)
        \o (IF isPromotion THEN promotionPosibilities(origin, tCor)
            ELSE (IF Square(c.board, tCor).p = Empty THEN <<UCI(origin, tCor)>> ELSE <<>>)
                 \o (IF ~(dir = 1 /\ origin.Y = 1) /\ ~(dir = -1 /\ origin.Y = 6) THEN <<>>
                     ELSE IF Square(c.board, tCor2).p = Empty THEN <<UCI(origin, tCor2)>>
                     ELSE <<>>))

pawnMoves(c, origin) ==
    pawnPushMoves(c, origin, IF BitAnd(Square(c.board, origin).p, White) = Empty THEN 1 ELSE -1)

\* the loop over the offsets in oneStepPieces, from offset number k on
RECURSIVE oneStepFrom(_, _, _, _, _)
oneStepFrom(c, origin, color, offsets, k) ==
    IF k > Len(offsets) THEN <<>>
    ELSE LET step(ts, move) ==
                 IF ts.err THEN <<>>
                 ELSE IF ts.p = Empty THEN <<move>>
                 ELSE IF BitAnd(ts.p, color) = Empty THEN <<move>>
                 ELSE <<>>
             tCor == Coor(origin.X + offsets[k].X, origin.Y + offsets[k].Y)
         IN  step(Square(c.board, tCor), UCI(origin, tCor))
             \o oneStepFrom(c, origin, color, offsets, k + 1)

oneStepPieces(c, origin, offsets) == oneStepFrom(c, origin, colorAt(c, origin), offsets, 1)

knightMoves(c, origin) ==
    oneStepPieces(c, origin,
        << Coor(1, 2), Coor(2, 1), Coor(1, -2), Coor(2, -1),
           Coor(-1, 2), Coor(-2, 1), Coor(-1, -2), Coor(-2, -1) >>)

kingMoves(c, origin) ==
    oneStepPieces(c, origin,
        << Coor(1, 1), Coor(1, 0), Coor(1, -1), Coor(0, 1), Coor(0, -1),
           Coor(-1, 1), Coor(-1, 0), Coor(-1, -1) >>)

castleDirections == [k |-> 1, K |-> 1, q |-> -1, Q |-> -1]

\* the body of the loop of kingCastleMoves, for the key castle
castleMove(c, origin, kingColor, castle, dir) ==
    IF ~StrContains(c.availableCastles, castle) THEN <<>>
    ELSE IF BitAnd(Pieces(castle), kingColor) = Empty THEN <<>>
    ELSE IF Square(c.board, Coor(origin.X + dir, origin.Y)).err
            \/ Square(c.board, Coor(origin.X + dir, origin.Y)).p # Empty
    THEN <<>>
    ELSE IF Square(c.board, Coor(origin.X + 2 * dir, origin.Y)).err
            \/ Square(c.board, Coor(origin.X + 2 * dir, origin.Y)).p # Empty
    THEN <<>>
    ELSE <<UCI(origin, Coor(origin.X + 2 * dir, origin.Y))>>

\* the loop of kingCastleMoves over castleDirections in the key order given,
\* from key number i on
RECURSIVE castleFrom(_, _, _, _, _)
castleFrom(c, origin, kingColor, order, i) ==
    IF i > Len(order) THEN <<>>
    ELSE castleMove(c, origin, kingColor, order[i], castleDirections[order[i]])
         \o castleFrom(c, origin, kingColor, order, i + 1)

\* Go visits the keys of castleDirections in an order it chooses; at most
\* two keys, one per side of the king, yield a move.  The list is built here
\* king side first; CastleOrders gives the lists the other orders build.
kingCastleMoves(c, origin) ==
    IF c.availableCastles = "-" THEN <<>>
    ELSE castleFrom(c, origin, colorAt(c, origin), <<"k", "K", "q", "Q">>, 1)

\* the inner loop of slidingPieces taking the first piece it meets, whatever
\* its color
RECURSIVE slideFromOntoAny(_, _, _, _, _)
slideFromOntoAny(c, origin, color, d, i) ==
    LET step(ts, move) ==
            IF ts.err THEN <<>>
            ELSE IF ts.p = Empty THEN <<move>> \o slideFromOntoAny(c, origin, color, d, i + 1)
            ELSE <<move>>
        tCor == Coor(origin.X + i * d.X, origin.Y + i * d.Y)
    IN  step(Square(c.board, tCor), UCI(origin, tCor))

\* the inner loop of slidingPieces along direction d, from step i on
RECURSIVE slideFrom(_, _, _, _, _)
slideFrom(c, origin, color, d, i) ==
    LET step(ts, move) ==
            IF ts.err THEN <<>>
            ELSE IF ts.p = Empty THEN <<move>> \o slideFrom(c, origin, color, d, i + 1)
            ELSE IF BitAnd(ts.p, color) = Empty THEN <<move>>
            ELSE <<>>
        tCor == Coor(origin.X + i * d.X, origin.Y + i * d.Y)
    IN  step(Square(c.board, tCor), UCI(origin, tCor))

\* the outer loop of slidingPieces over the directions, from direction number k on
RECURSIVE slideAll(_, _, _, _, _)
slideAll(c, origin, color, offsets, k) ==
    IF k > Len(offsets) THEN <<>>
    ELSE slideFrom(c, origin, color, offsets[k], 1) \o slideAll(c, origin, color, offsets, k + 1)

slidingPieces(c, origin, offsets) == slideAll(c, origin, colorAt(c, origin), offsets, 1)

rookMoves(c, origin) ==
    slidingPieces(c, origin, << Coor(1, 0), Coor(-1, 0), Coor(0, 1), Coor(0, -1) >>)

bishopMoves(c, origin) ==
    slidingPieces(c, origin, << Coor(1, 1), Coor(-1, 1), Coor(1, -1), Coor(-1, -1) >>)

queenMoves(c, origin) == rookMoves(c, origin) \o bishopMoves(c, origin)

movesForPiece(c, piece, origin) ==
    LET kind == BitClear(piece, BitOr(White, Black))
    IN  CASE kind = Pawn -> pawnMoves(c, origin)
          [] kind = Rook -> rookMoves(c, origin)
          [] kind = Queen -> queenMoves(c, origin)
          [] kind = King -> kingMoves(c, origin) \o kingCastleMoves(c, origin)
          [] kind = Bishop -> bishopMoves(c, origin)
          [] kind = Knight -> knightMoves(c, origin)
          [] OTHER -> <<>>

\* availableMoves: the loops over x and then y visit square number
\* i = 8x + y as number i
availableMoves(c) ==
    AppendAll([i \in 0..63 |->
                  IF BitAnd(Square(c.board, Coor(i \div 8, i % 8)).p, c.turn) = Empty
                  THEN <<>>
                  ELSE movesForPiece(c, Square(c.board, Coor(i \div 8, i % 8)).p,
                                     Coor(i \div 8, i % 8))],
              0, 63)

\* destinationMatch: move[2:4] panics on a move shorter than 4 bytes, which
\* the generator builds for a pawn whose forward square is off the board
RECURSIVE destinationMatchFrom(_, _, _)
destinationMatchFrom(list, algCoor, i) ==
    IF i > Len(list) THEN [v |-> FALSE, panic |-> FALSE]
    ELSE IF Len(list[i]) < 4 THEN [v |-> FALSE, panic |-> TRUE]
    ELSE IF SubSeq(list[i], 3, 4) = algCoor THEN [v |-> TRUE, panic |-> FALSE]
    ELSE destinationMatchFrom(list, algCoor, i + 1)

destinationMatch(list, destination) ==
    destinationMatchFrom(list, CoordinateToAlgebraic(destination), 1)

toggleColor(c) == [c EXCEPT !.turn = IF c.turn = White THEN Black ELSE White]

kingsPosition(c, color) ==
    IF color = White THEN c.whiteKingPosition ELSE c.blackKingPosition

\* isCheck works on a copy of the struct: the result only
isCheck(c) ==
    destinationMatch(availableMoves(toggleColor(c)), kingsPosition(c, c.turn))

isPositionLegal(c) ==
    LET not(r) == [v |-> ~r.v, panic |-> r.panic]
    IN  not(isCheck(toggleColor(c)))

isCastleMove(c, move) ==
    IF move \notin DOMAIN castlesMoves \/ castlesMoves[move] # c.turn THEN FALSE
    ELSE Square(c.board, AlgebraicToCoordinate(SubSeq(move, 1, 2)).coor).p = BitOr(King, c.turn)

isEnPassantMove(c, move) ==
    IF c.enPassantSquare = "" THEN FALSE
    ELSE IF SubSeq(move, 3, 4) # c.enPassantSquare THEN FALSE
    ELSE BitClear(Square(c.board, AlgebraicToCoordinate(SubSeq(move, 1, 2)).coor).p,
                  BitOr(White, Black)) = Pawn

(***************************************************************************)
(* The FEN serializer.                                                     *)
(***************************************************************************)
\* the loop of calculateRowFEN over x, with the run of empty squares so far
RECURSIVE rowFENFrom(_, _, _)
rowFENFrom(row, x, empty) ==
    IF x > 8 THEN (IF empty > 0 THEN IntToStr(empty) ELSE "")
    ELSE IF row[x] = Empty THEN rowFENFrom(row, x + 1, empty + 1)
    ELSE (IF empty > 0 THEN IntToStr(empty) ELSE "")
         \o PieceNames(row[x]) \o rowFENFrom(row, x + 1, 0)

calculateRowFEN(c, y) == rowFENFrom(c.board[y + 1], 1, 0)

calculateEntireBoardFEN(c) ==
    Join([y \in 1..8 |-> calculateRowFEN(c, y - 1)], "/")

\* calculateBoardFEN(rows...): rows is the sequence of row numbers given
calculateBoardFEN(c, rows) ==
    IF Len(rows) = 0 THEN calculateEntireBoardFEN(c)
    ELSE LET r == Split(Split(c.actualFEN, " ")[1], "/")
         IN  Join([i \in 1..Len(r) |->
                      IF \E k \in 1..Len(rows) : rows[k] + 1 = i
                      THEN calculateRowFEN(c, i - 1) ELSE r[i]], "/")

\* calculateFEN(move...): move is <<>> or <<m>>
calculateFEN(c, move) ==
    (IF Len(move) = 0 THEN calculateEntireBoardFEN(c)
     ELSE calculateBoardFEN(c, << AlgebraicToCoordinate(SubSeq(move[1], 1, 2)).coor.Y,
                                  AlgebraicToCoordinate(SubSeq(move[1], 3, 4)).coor.Y >>))
    \o " " \o ColorNames[c.turn] \o " " \o CmpOr(c.availableCastles, "-")
    \o " " \o CmpOr(c.enPassantSquare, "-")
    \o " " \o IntToStr(c.halfMoves) \o " " \o IntToStr(c.movesCount)

(***************************************************************************)
(* The FEN loader.                                                         *)
(***************************************************************************)
validateCastles(castles) ==
    IF castles = "-" THEN TRUE
    ELSE \A i \in 1..Len(castles) :
            /\ SubSeq(castles, i, i) \in {"K", "Q", "k", "q"}
            /\ \A j \in 1..(i - 1) : SubSeq(castles, j, j) # SubSeq(castles, i, i)

\* validateEnPassant asking for a pawn of any color
validateEnPassantAnyPawn(c, square) ==
    IF square = "-" THEN TRUE
    ELSE LET valid(a) ==
                 IF a.err THEN FALSE
                 ELSE IF a.coor.Y # 2 /\ a.coor.Y # 5 THEN FALSE
                 ELSE BitClear(Square(c.board, Coor(a.coor.X, IF a.coor.Y = 2 THEN 3 ELSE 4)).p,
                               BitOr(White, Black)) = Pawn
         IN  valid(AlgebraicToCoordinate(square))

validateEnPassant(c, square) ==
    IF square = "-" THEN TRUE
    ELSE LET valid(a) ==
                 IF a.err THEN FALSE
                 ELSE IF a.coor.Y # 2 /\ a.coor.Y # 5 THEN FALSE
                 ELSE BitClear(Square(c.board, Coor(a.coor.X, IF a.coor.Y = 2 THEN 3 ELSE 4)).p,
                               IF a.coor.Y = 2 THEN Black ELSE White) = Pawn
         IN  valid(AlgebraicToCoordinate(square))

\* setProperties once the fields are split and the two counters converted
setFields(c, props, halfMoves_, movesCount_) ==
    IF props[1] \notin DOMAIN Colors THEN [c |-> c, err |-> TRUE]
    ELSE IF ~validateCastles(props[2]) THEN [c |-> c, err |-> TRUE]
    ELSE IF ~validateEnPassant(c, props[3]) THEN [c |-> c, err |-> TRUE]
    ELSE IF halfMoves_.err THEN [c |-> c, err |-> TRUE]
    ELSE IF movesCount_.err THEN [c |-> c, err |-> TRUE]
    ELSE [c |-> [c EXCEPT !.turn = Colors[props[1]],
                          !.availableCastles = props[2],
                          !.enPassantSquare = props[3],
                          !.halfMoves = halfMoves_.n,
                          !.movesCount = movesCount_.n],
          err |-> FALSE]

\* setProperties: the struct with the five properties set, or an error
setProperties(c, FEN) ==
    LET props == Tail(Split(FEN, " "))
    IN  setFields(c, props, Atoi(props[4]), ParseUint(props[5]))

\* the loop over x in loadPosition: fenRow[0] panics once fenRow is used up
RECURSIVE parseRow(_, _, _)
parseRow(fenRow, x, row) ==
    IF x = 8 THEN [panic |-> FALSE, row |-> row, rest |-> fenRow]
    ELSE IF fenRow = "" THEN [panic |-> TRUE, row |-> row, rest |-> fenRow]
    ELSE LET square(char, rest, a) ==
                 IF a.err THEN parseRow(rest, x + 1, Append(row, Pieces(char)))
                 ELSE parseRow(IF a.n - 1 > 0 THEN IntToStr(a.n - 1) \o rest ELSE rest,
                               x + 1, Append(row, Empty))
         IN  square(Head(fenRow), Tail(fenRow), Atoi(Head(fenRow)))

\* the loop over y in loadPosition
RECURSIVE parseRows(_, _, _)
parseRows(fenRows, y, brd) ==
    IF y = 8 THEN [st |-> "ok", brd |-> brd]
    ELSE IF Len(fenRows[y + 1]) = 0 \/ Len(fenRows[y + 1]) > 8 THEN [st |-> "err", brd |-> brd]
    ELSE LET row(r) ==
                 IF r.panic THEN [st |-> "panic", brd |-> brd]
                 ELSE IF r.rest # "" /\ r.rest # "0" THEN [st |-> "err", brd |-> brd]
                 ELSE parseRows(fenRows, y + 1, Append(brd, r.row))
         IN  row(parseRow(fenRows[y + 1], 0, <<>>))

\* the squares holding piece p, in the order loadPosition visits them
kingSquares(brd, p) ==
    SelectSeq([i \in 1..64 |-> Coor((i - 1) % 8, (i - 1) \div 8)],
              LAMBDA co : brd[co.Y + 1][co.X + 1] = p)

\* loadLegality without "*c = copy" where the position is not legal
loadLegalityKeepsNew(c, c2) ==
    LET legal(r) ==
            IF r.panic THEN [c |-> [c2 EXCEPT !.panic = TRUE], err |-> FALSE]
            ELSE IF ~r.v THEN [c |-> c2, err |-> TRUE]
            ELSE [c |-> c2, err |-> FALSE]
    IN  legal(isPositionLegal(c2))

\* loadPosition from the legality check on: c2 is the struct with the new
\* board, properties and king positions
loadLegality(c, c2) ==
    LET legal(r) ==
            IF r.panic THEN [c |-> [c2 EXCEPT !.panic = TRUE], err |-> FALSE]
            ELSE IF ~r.v THEN [c |-> c, err |-> TRUE]
            ELSE [c |-> c2, err |-> FALSE]
    IN  legal(isPositionLegal(c2))

\* loadPosition from the outcome sp of setProperties on
loadProperties(c, sp, whiteKingPosition_, blackKingPosition_) ==
    IF sp.err THEN [c |-> c, err |-> TRUE]
    ELSE loadLegality(c, [sp.c EXCEPT !.whiteKingPosition = whiteKingPosition_,
                                      !.blackKingPosition = blackKingPosition_])

\* loadPosition from the count of the kings on
loadKings(c, FEN, brd, whiteKings, blackKings) ==
    IF Len(whiteKings) # 1 \/ Len(blackKings) # 1 THEN [c |-> c, err |-> TRUE]
    ELSE loadProperties(c, setProperties([c EXCEPT !.board = brd], FEN),
                        whiteKings[Len(whiteKings)], blackKings[Len(blackKings)])

\* loadPosition from the outcome of the loop over the rows on
loadBoard(c, FEN, parsed) ==
    IF parsed.st = "panic" THEN [c |-> [c EXCEPT !.panic = TRUE], err |-> FALSE]
    ELSE IF parsed.st = "err" THEN [c |-> c, err |-> TRUE]
    ELSE loadKings(c, FEN, parsed.brd, kingSquares(parsed.brd, BitOr(King, White)),
                   kingSquares(parsed.brd, BitOr(King, Black)))

\* loadPosition: the struct after the call and whether an error was returned
loadPosition(c, FEN) ==
    LET fenRows == Split(FEN, "/")
    IN  IF Len(fenRows) # 8 THEN [c |-> c, err |-> TRUE]
        ELSE IF Len(Split(fenRows[8], " ")) # 6 THEN [c |-> c, err |-> TRUE]
        ELSE loadBoard(c, FEN,
                       parseRows([fenRows EXCEPT ![8] = Split(fenRows[8], " ")[1]], 0, <<>>))

(***************************************************************************)
(* The move applier and the history stack.                                 *)
(***************************************************************************)
\* updateMovesCount counting the moves of both sides
updateMovesCountEachMove(c) == [c EXCEPT !.movesCount = c.movesCount + 1]

updateMovesCount(c) ==
    IF c.turn = White THEN [c EXCEPT !.movesCount = c.movesCount + 1] ELSE c

\* updateCastlePossibilities looking at the kings alone
updateCastlePossibilitiesKings(c) ==
    LET drop(str, castle, mustDelete) == IF mustDelete THEN RemoveChar(str, castle) ELSE str
        update(k, K) ==
            drop(drop(drop(drop(c.availableCastles,
                "k", k # BitOr(King, Black)), "q", k # BitOr(King, Black)),
                "K", K # BitOr(King, White)), "Q", K # BitOr(King, White))
    IN  [c EXCEPT !.availableCastles =
            update(Square(c.board, Coor(4, 0)).p, Square(c.board, Coor(4, 7)).p)]

\* the castles are dropped one by one; the order Go drops them in does not
\* change the string left
updateCastlePossibilities(c) ==
    LET drop(str, castle, mustDelete) == IF mustDelete THEN RemoveChar(str, castle) ELSE str
        update(k, rr, lr, K, rR, lR) ==
            drop(drop(drop(drop(c.availableCastles,
                "k", rr # BitOr(Rook, Black) \/ k # BitOr(King, Black)),
                "q", lr # BitOr(Rook, Black) \/ k # BitOr(King, Black)),
                "K", rR # BitOr(Rook, White) \/ K # BitOr(King, White)),
                "Q", lR # BitOr(Rook, White) \/ K # BitOr(King, White))
    IN  [c EXCEPT !.availableCastles =
            update(Square(c.board, Coor(4, 0)).p, Square(c.board, Coor(7, 0)).p,
                   Square(c.board, Coor(0, 0)).p, Square(c.board, Coor(4, 7)).p,
                   Square(c.board, Coor(7, 7)).p, Square(c.board, Coor(0, 7)).p)]

\* fenAnalysisRegex.ReplaceAllString(s, "") followed by len: the bytes of s
\* that are neither "/" nor a digit
countPieceChars(s) ==
    Cardinality({i \in 1..Len(s) : SubSeq(s, i, i) \notin (Digits \cup {"/"})})

updateHalfMoves(c) ==
    LET h == c.history[Len(c.history)]
    IN  [c EXCEPT !.halfMoves =
            IF Len(h.move) = 5 THEN 0
            ELSE IF countPieceChars(Split(h.fen, " ")[1])
                        > countPieceChars(calculateBoardFEN(c, <<>>))
            THEN 0
            ELSE IF BitClear(Square(c.board, AlgebraicToCoordinate(SubSeq(h.move, 3, 4)).coor).p,
                             BitOr(White, Black)) = Pawn
            THEN 0
            ELSE c.halfMoves + 1]

\* updateEnPassantSquare once the two row numbers are converted
enPassantSquareAfter(c, lastMove, destRow, orgRow) ==
    IF Len(lastMove) # 4 THEN ""
    ELSE IF BitClear(Square(c.board,
                        AlgebraicToCoordinate(SubSeq(lastMove, 3, Len(lastMove))).coor).p,
                     BitOr(White, Black)) # Pawn
    THEN ""
    ELSE IF destRow = orgRow + 2 \/ destRow = orgRow - 2
    THEN SubSeq(lastMove, 3, 3) \o IntToStr((destRow + orgRow) \div 2)
    ELSE ""

\* updateEnPassantSquare without the clearing: the square stays after a move
\* that sets none
updateEnPassantSquareKeeps(c) ==
    LET lastMove == c.history[Len(c.history)].move
        square == enPassantSquareAfter(c, lastMove, Atoi(SubSeq(lastMove, 4, 4)).n,
                                       Atoi(SubSeq(lastMove, 2, 2)).n)
    IN  IF square = "" THEN c ELSE [c EXCEPT !.enPassantSquare = square]

updateEnPassantSquare(c) ==
    LET lastMove == c.history[Len(c.history)].move
    IN  [c EXCEPT !.enPassantSquare =
            enPassantSquareAfter(c, lastMove, Atoi(SubSeq(lastMove, 4, 4)).n,
                                 Atoi(SubSeq(lastMove, 2, 2)).n)]

\* the three steps of makeMove on the board b, for the move from o to t: the
\* rook of a castle, the pawn captured en passant, and the piece moved
moveCastleRook(c, b, move, o, t) ==
    IF isCastleMove(c, move)
    THEN BoardMakeMove(b, castleRook[move], Coor((o.X + t.X) \div 2, o.Y))
    ELSE b

moveEnPassant(c, b, move, o, t) ==
    IF isEnPassantMove([c EXCEPT !.board = b], move)
    THEN SetSquare(b, Coor(t.X, o.Y), Empty)
    ELSE b

\* movePiece with every promotion a queen, whatever the fifth letter
movePieceQueens(c, b, move, o, t) ==
    IF Len(move) = 5
    THEN SetSquare(SetSquare(b, t, BitOr(Queen, c.turn)), o, Empty)
    ELSE BoardMakeMove(b, o, t)

movePiece(c, b, move, o, t) ==
    IF Len(move) = 5
    THEN SetSquare(SetSquare(b, t, BitOr(PiecesWithoutColor(SubSeq(move, 5, 5)), c.turn)),
                   o, Empty)
    ELSE BoardMakeMove(b, o, t)

\* makeMove up to the update of the king positions, for the move from o to t
moved(c, move, o, t) ==
    [c EXCEPT !.board = movePiece(c, moveEnPassant(c, moveCastleRook(c, c.board, move, o, t),
                                                   move, o, t),
                                  move, o, t),
              !.history = Append(c.history,
                                 [move |-> move,
                                  fen |-> c.actualFEN,
                                  halfMove |-> c.halfMoves,
                                  availableCastles |-> c.availableCastles,
                                  enPassantSquare |-> c.enPassantSquare,
                                  whiteKingPosition |-> c.whiteKingPosition,
                                  blackKingPosition |-> c.blackKingPosition]),
              !.whiteKingPosition = IF o = c.whiteKingPosition THEN t ELSE @,
              !.blackKingPosition = IF o = c.blackKingPosition THEN t ELSE @]

\* makeMove, for a move of at least 4 bytes
makeMove(c, move) ==
    updateEnPassantSquare(updateHalfMoves(updateCastlePossibilities(updateMovesCount(
        toggleColor(moved(c, move, AlgebraicToCoordinate(SubSeq(move, 1, 2)).coor,
                          AlgebraicToCoordinate(SubSeq(move, 3, 4)).coor))))))

unmakeMove(c) ==
    IF Len(c.history) = 0 THEN c
    ELSE LET restore(c2, lastContext) ==
                 [c2 EXCEPT !.whiteKingPosition = lastContext.whiteKingPosition,
                            !.blackKingPosition = lastContext.blackKingPosition]
         IN  restore(loadPosition([c EXCEPT !.history = SubSeq(c.history, 1, Len(c.history) - 1)],
                                  c.history[Len(c.history)].fen).c,
                     c.history[Len(c.history)])

(***************************************************************************)
(* The legality filter.                                                    *)
(***************************************************************************)
\* isLegalMove after unmakeMove: c2 is the struct then
unmade(c2, move, availableMoves_, kingUnderAttack) ==
    LET way(kingWay) ==
            IF kingWay.panic THEN [c |-> [c2 EXCEPT !.panic = TRUE], v |-> FALSE]
            ELSE [c |-> c2, v |-> ~kingWay.v]
    IN  IF c2.panic THEN [c |-> c2, v |-> FALSE]
        ELSE IF kingUnderAttack THEN [c |-> c2, v |-> FALSE]
        ELSE IF isCastleMove(c2, move)
        THEN way(destinationMatch(availableMoves_, castleKingWay[move]))
        ELSE [c |-> c2, v |-> TRUE]

\* isLegalMove after makeMove: c1 is the struct then and availableMoves_ the
\* moves of the opponent
probed(kingsColor, c1, move, availableMoves_) ==
    LET kingUnderAttack == destinationMatch(availableMoves_, kingsPosition(c1, kingsColor))
    IN  IF kingUnderAttack.panic THEN [c |-> [c1 EXCEPT !.panic = TRUE], v |-> FALSE]
        ELSE unmade(unmakeMove(c1), move, availableMoves_, kingUnderAttack.v)

\* isLegalMove after makeMove: c1 is the struct then
madeMove(kingsColor, c1, move) == probed(kingsColor, c1, move, availableMoves(c1))

\* isLegalMove: the struct after the make / probe / unmake cycle and the verdict
isLegalMove(c, move) ==
    IF Len(move) < 4 THEN [c |-> [c EXCEPT !.panic = TRUE], v |-> FALSE]
    ELSE madeMove(c.turn, makeMove(c, move), move)

\* the loop of legalMoves over the pseudo-legal moves number lo to hi of
\* list: the struct after them and the legal ones among them.  The loop ends
\* where isLegalMove panics.
RECURSIVE legalMovesFrom(_, _, _, _)
legalMovesFrom(c, list, lo, hi) ==
    LET one(r) == [c |-> r.c, moves |-> IF r.v /\ ~r.c.panic THEN <<list[lo]>> ELSE <<>>]
        both(left, right) == [c |-> right.c, moves |-> left.moves \o right.moves]
        then(left) ==
            IF left.c.panic THEN left
            ELSE both(left, legalMovesFrom(left.c, list, (lo + hi) \div 2 + 1, hi))
    IN  IF lo > hi THEN [c |-> c, moves |-> <<>>]
        ELSE IF lo = hi THEN one(isLegalMove(c, list[lo]))
        ELSE then(legalMovesFrom(c, list, lo, (lo + hi) \div 2))

\* legalMoves after its loop: r is the struct then and the list built
filtered(r) ==
    IF r.c.panic \/ Len(r.moves) # 0 THEN r
    ELSE IF isCheck(r.c).panic THEN [c |-> [r.c EXCEPT !.panic = TRUE], moves |-> r.moves]
    ELSE r

\* legalMoves: the struct after the call and the list returned
legalMovesOf(c, list) == legalMovesFrom(c, list, 1, Len(list))
legalMoves(c) == filtered(legalMovesOf(c, availableMoves(c)))

(***************************************************************************)
(* The public operations.  Each gives the struct after the call; the ones  *)
(* that return an error give the error too.                                *)
(***************************************************************************)
\* the flags LoadPosition and MakeMove set, c1 being the struct with its moves
flagged(c1) ==
    LET flags(chk) ==
            IF chk.panic THEN [c1 EXCEPT !.panic = TRUE]
            ELSE [c1 EXCEPT !.check = chk.v /\ Len(c1.moves) > 0,
                            !.checkmate = chk.v /\ Len(c1.moves) = 0,
                            !.stalemate = ~chk.v /\ Len(c1.moves) = 0]
    IN  flags(isCheck(c1))

\* c.moves = c.legalMoves(), lm being what legalMoves gave
listed(lm) == IF lm.c.panic THEN lm.c ELSE [lm.c EXCEPT !.moves = lm.moves]

\* the tail shared by LoadPosition and MakeMove: the legal moves and the flags
refreshed(c1) == IF c1.panic THEN c1 ELSE flagged(c1)
refresh(c) == refreshed(listed(legalMoves(c)))

\* loaded with the FEN computed from the board in place of the one given
loadedComputesFEN(r, FEN) ==
    IF r.c.panic \/ r.err THEN r
    ELSE [c |-> refresh([r.c EXCEPT !.actualFEN = calculateFEN(r.c, <<>>)]), err |-> FALSE]

\* Chess.LoadPosition after loadPosition, r being what it gave
loaded(r, FEN) ==
    IF r.c.panic \/ r.err THEN r
    ELSE [c |-> refresh([r.c EXCEPT !.actualFEN = FEN]), err |-> FALSE]

\* Chess.LoadPosition
DoLoadPosition(c, FEN) == loaded(loadPosition(c, FEN), FEN)

\* Chess.MakeMove after makeMove, c1 being the struct then
played(c1, move) ==
    [c |-> refresh([c1 EXCEPT !.actualFEN = calculateFEN(c1, <<move>>)]), err |-> FALSE]

\* Chess.MakeMove
DoMakeMove(c, move) ==
    IF ~Contains(c.moves, move) THEN [c |-> c, err |-> TRUE]
    ELSE played(makeMove(c, move), move)

\* Chess.UnmakeMove after unmakeMove, c1 being the struct then
relisted(c1) == IF c1.panic THEN c1 ELSE listed(legalMoves(c1))

\* Chess.UnmakeMove
DoUnmakeMove(c) == relisted(unmakeMove(c))

(***************************************************************************)
(* The state machine: New, then any calls of LoadPosition, MakeMove and    *)
(* UnmakeMove.                                                             *)
(***************************************************************************)
\* the most successful MakeMove calls after a load, and the most successful
\* LoadPosition calls, in one run
MaxMade == 2
MaxLoads == 1
\* the most successful MakeMove calls before a successful LoadPosition call
MaxMadeBeforeLoad == 0
\* the most UnmakeMove calls in one run
MaxUnmade == 2

\* the FEN strings a caller loads: a checkmate, a stalemate, a check, a king
\* with a pawn, a rank written with two digits, a king beside a rook's rank;
\* then strings LoadPosition refuses (the side not to move is in check, a
\* half-move clock that is no number, a rank of nine squares, no white king)
\* and one with a rank of one square, on which it panics
FENInputs ==
    { "k7/8/8/8/8/8/3qr3/3K4 w - - 0 1",
      "k7/8/8/8/8/8/2q5/K7 w - - 0 1",
      "k7/8/8/8/8/8/3q4/3K4 w - - 0 1",
      "k7/8/8/8/8/8/6PK/8 w - - 0 1",
      "k7/8/8/44/8/8/8/K7 w - - 0 1",
      "k7/8/8/8/8/8/7r/K7 w - - 0 1",
      "k7/8/8/8/8/8/7r/7K b - - 0 1",
      "k7/8/8/8/8/8/8/K7 w - - x 1",
      "k7/8/8/8/8/8/8/9 w - - 0 1",
      "k7/8/8/8/8/8/8/8 w - - 0 1",
      "k7/8/8/8/8/8/8/K w - - 0 1" }

\* the moves tried from the position New sets up
OpeningMoves == { "e2e4", "e7e5" }

BadMoves == { "d3d9", "h7h8k" }

\* the Chess struct as a record, with the flag of a panic in progress
Chess ==
    [board |-> board, turn |-> turn, movesCount |-> movesCount, halfMoves |-> halfMoves,
     enPassantSquare |-> enPassantSquare, availableCastles |-> availableCastles,
     moves |-> moves, actualFEN |-> actualFEN,
     blackKingPosition |-> blackKingPosition, whiteKingPosition |-> whiteKingPosition,
     check |-> check, checkmate |-> checkmate, stalemate |-> stalemate,
     history |-> history, panic |-> FALSE]

\* the two castle moves of one king swapped in list, when both are there
SwapCastles(list) ==
    [i \in 1..Len(list) |->
        IF i < Len(list) /\ list[i] \in DOMAIN castlesMoves /\ list[i + 1] \in DOMAIN castlesMoves
        THEN list[i + 1]
        ELSE IF i > 1 /\ list[i] \in DOMAIN castlesMoves /\ list[i - 1] \in DOMAIN castlesMoves
        THEN list[i - 1]
        ELSE list[i]]

\* the lists kingCastleMoves makes of list under the key orders Go may choose
CastleOrders(list) == {list, SwapCastles(list)}

\* the struct c becomes the state; listed tells that the call ran legalMoves
Becomes(c, listed_) ==
    /\ board' = c.board
    /\ turn' = c.turn
    /\ movesCount' = c.movesCount
    /\ halfMoves' = c.halfMoves
    /\ enPassantSquare' = c.enPassantSquare
    /\ availableCastles' = c.availableCastles
    /\ moves' \in IF listed_ THEN CastleOrders(c.moves) ELSE {c.moves}
    /\ actualFEN' = c.actualFEN
    /\ blackKingPosition' = c.blackKingPosition
    /\ whiteKingPosition' = c.whiteKingPosition
    /\ check' = c.check
    /\ checkmate' = c.checkmate
    /\ stalemate' = c.stalemate
    /\ history' = c.history

\* the record of the calls: the last call and whether it returned an error
\* (op, arg, err); the last call that returned no error (did) and, when that
\* was a MakeMove, FEN() and the three flags before it (didFen, didFlags);
\* when that was an UnmakeMove, the like call before it (pre) and its didFen
\* and didFlags (preFen, preFlags); the numbers of
\* successful MakeMove calls since the last load, of successful
\* LoadPosition calls and of UnmakeMove calls
Called(op, arg, err) ==
    IF err THEN [g EXCEPT !.op = op, !.arg = arg, !.err = TRUE]
    ELSE [op |-> op, arg |-> arg, err |-> FALSE,
          did |-> op,
          didFen |-> IF op = "MakeMove" THEN actualFEN ELSE "",
          didFlags |-> IF op = "MakeMove" THEN <<check, checkmate, stalemate>> ELSE <<>>,
          pre |-> IF op = "UnmakeMove" THEN g.did ELSE "",
          preFen |-> IF op = "UnmakeMove" THEN g.didFen ELSE "",
          preFlags |-> IF op = "UnmakeMove" THEN g.didFlags ELSE <<>>,
          made |-> IF op = "MakeMove" THEN g.made + 1
                   ELSE IF op = "LoadPosition" THEN 0 ELSE g.made,
          loads |-> IF op = "LoadPosition" THEN g.loads + 1 ELSE g.loads,
          unmade |-> IF op = "UnmakeMove" THEN g.unmade + 1 ELSE g.unmade]

\* New with the moves of the pawns only
InitPawnMovesOnly ==
    /\ board = DefaultChessBoard
    /\ turn = White
    /\ movesCount = 1
    /\ halfMoves = 0
    /\ enPassantSquare = ""
    /\ availableCastles = "KQkq"
    /\ actualFEN = "rnbqkbnr/pppppppp/8/8/8/8/PPPPPPPP/RNBQKBNR w KQkq - 0 1"
    /\ moves = << "a2a3", "a2a4", "b2b3", "b2b4", "c2c3", "c2c4", "d2d3", "d2d4",
                  "e2e3", "e2e4", "f2f3", "f2f4", "g2g3", "g2g4", "h2h3", "h2h4" >>
    /\ blackKingPosition = Coor(4, 0)
    /\ whiteKingPosition = Coor(4, 7)
    /\ check = FALSE
    /\ checkmate = FALSE
    /\ stalemate = FALSE
    /\ history = <<>>
    /\ crashed = FALSE
    /\ g = [op |-> "New", arg |-> "", err |-> FALSE, did |-> "New", didFen |-> "",
            didFlags |-> <<>>, pre |-> "", preFen |-> "", preFlags |-> <<>>, made |-> 0, loads |-> 0, unmade |-> 0]

Init ==
    /\ board = DefaultChessBoard
    /\ turn = White
    /\ movesCount = 1
    /\ halfMoves = 0
    /\ enPassantSquare = ""
    /\ availableCastles = "KQkq"
    /\ actualFEN = "rnbqkbnr/pppppppp/8/8/8/8/PPPPPPPP/RNBQKBNR w KQkq - 0 1"
    /\ moves = << "a2a3", "a2a4", "b2b3", "b2b4", "c2c3", "c2c4", "d2d3", "d2d4",
                  "e2e3", "e2e4", "f2f3", "f2f4", "g2g3", "g2g4", "h2h3", "h2h4",
                  "b1a3", "b1c3", "g1f3", "g1h3" >>
    /\ blackKingPosition = Coor(4, 0)
    /\ whiteKingPosition = Coor(4, 7)
    /\ check = FALSE
    /\ checkmate = FALSE
    /\ stalemate = FALSE
    /\ history = <<>>
    /\ crashed = FALSE
    /\ g = [op |-> "New", arg |-> "", err |-> FALSE, did |-> "New", didFen |-> "",
            didFlags |-> <<>>, pre |-> "", preFen |-> "", preFlags |-> <<>>, made |-> 0, loads |-> 0, unmade |-> 0]

\* the end of a call: the new state, or the crash of the program
Ends(c, op, arg, err) ==
    IF c.panic
    THEN /\ crashed' = TRUE
         /\ g' = Called(op, arg, FALSE)
         /\ UNCHANGED progVars
    ELSE /\ crashed' = FALSE
         /\ g' = Called(op, arg, err)
         /\ Becomes(c, ~err)

\* A run is followed up to its first call that returns an error, and to the
\* crash of the program.
LoadPosition(FEN) ==
    /\ ~crashed /\ ~g.err
    /\ \/ g.loads < MaxLoads /\ g.made <= MaxMadeBeforeLoad
       \/ loadPosition(Chess, FEN).err
    /\ LET returns(r) == Ends(r.c, "LoadPosition", FEN, r.err)
       IN  returns(DoLoadPosition(Chess, FEN))

\* the game of TestMakeMove_ScholarMate
ScholarMate == << "e2e4", "e7e5", "f1c4", "b8c6", "d1h5", "g8f6", "h5f7" >>

\* the moves made and not unmade, oldest first
Played == [i \in 1..Len(history) |-> history[i].move]

\* the game so far is the beginning of ScholarMate with nothing loaded or
\* unmade, and move is its next move
OnLine(move) ==
    /\ g.loads = 0 /\ g.unmade = 0
    /\ Len(history) < Len(ScholarMate)
    /\ Played = SubSeq(ScholarMate, 1, Len(history))
    /\ move = ScholarMate[Len(history) + 1]

\* the game of ScholarMate is followed to its end, any other up to MaxMade moves
MakeMove(move) ==
    /\ ~crashed /\ ~g.err
    /\ Contains(moves, move) => (g.made < MaxMade \/ OnLine(move))
    /\ LET returns(r) == Ends(r.c, "MakeMove", move, r.err)
       IN  returns(DoMakeMove(Chess, move))

UnmakeMove ==
    /\ ~crashed /\ ~g.err
    /\ g.unmade < MaxUnmade
    /\ Ends(DoUnmakeMove(Chess), "UnmakeMove", "", FALSE)

\* the moves a caller tries: the legal moves it is offered (from the position
\* New sets up, the opening moves among them) and some that never are legal
MoveInputs ==
    BadMoves \cup IF g.loads = 0 THEN OpeningMoves
                  ELSE {moves[i] : i \in 1..Len(moves)}

Next ==
    \/ \E FEN \in FENInputs : LoadPosition(FEN)
    \/ \E move \in MoveInputs : MakeMove(move)
    \/ UnmakeMove

Spec == Init /\ [][Next]_vars

(***************************************************************************)
(* The same calls on the positions of the special moves.                   *)
(***************************************************************************)
\* a castle whose king way is attacked, the castle of TestMakeMove/Castle, a
\* castling right with no rook in the corner, the en passant capture of
\* TestMakeMove/En Passant, an en-passant square behind a pawn of the side to
\* move, a promotion, a checkmate in one move, a pawn on its home rank with
\* a piece in front of it, a pawn before the last rank with a piece in front
\* of it, a castling right with a knight next to the rook, a
\* castling right of a king in check, a pawn of the other side in front of
\* a king
SpecialFENs ==
    { "k7/8/8/8/8/8/3n4/4K2R w K - 0 1",
      "k7/8/8/8/8/8/8/4K2R w K - 0 1",
      "k7/8/8/8/8/8/8/4K3 w K - 0 1",
      "7k/8/8/3pP3/8/8/8/7K w - d6 0 1",
      "7k/3pp3/8/3p4/8/8/8/7K b - d6 0 1",
      "k7/7P/8/8/8/8/8/K7 w - - 0 1",
      "k7/8/1K6/8/8/8/8/7R w - - 0 1",
      "k7/8/8/8/8/7n/7P/K7 w - - 0 1",
      "k6n/7P/8/8/8/8/8/K7 w - - 0 1",
      "7k/8/8/8/8/8/8/RN2K3 w Q - 0 1",
      "k3r3/8/8/8/8/8/8/4K2R w K - 0 1",
      "k7/8/8/8/8/8/4p3/4K3 w - - 0 1" }

\* the moves tried there: the castle, the captures en passant, two
\* promotions, moves of a king and of the rook, and the checkmate
TriedMoves ==
    { "e1g1", "h1h2", "h1g1", "a8a7", "e5d6", "e7d6", "h8g8", "h7h8q", "h7h8n", "a1a2",
      "h1h8", "b6c5" }

\* the moves a caller tries: those of TriedMoves it is offered
SpecialMoves ==
    IF g.loads = 0 THEN OpeningMoves ELSE {move \in TriedMoves : Contains(moves, move)}

NextSpecial ==
    \/ \E FEN \in SpecialFENs : LoadPosition(FEN)
    \/ \E move \in SpecialMoves : MakeMove(move)
    \/ UnmakeMove

SpecSpecial == Init /\ [][NextSpecial]_vars

(***************************************************************************)
(* The same calls on the FEN strings the loader has to refuse.             *)
(***************************************************************************)
\* a king that is attacked with its side to move, a rank with letters that
\* name no piece; then strings LoadPosition refuses (a king the side to move
\* attacks, a pawn below the king of the other side, ranks of nine squares)
\* and ranks of seven squares, on which it panics
\* FEN strings for the fields after the placement: castling fields (empty, a
\* letter, a letter four times, a foreign letter), en-passant fields (behind a
\* white pawn, behind a black pawn, behind a pawn of the wrong color, behind
\* no pawn, on rank 4, off the board, empty) and move counters (negative ones)
FieldFENs ==
    { "k7/8/8/8/8/8/8/4K3 w  - 0 1",
      "k7/8/8/8/8/8/8/4K3 w K - 0 1",
      "k7/8/8/8/8/8/8/4K3 w QQQQ - 0 1",
      "k7/8/8/8/8/8/8/4K3 w Kx - 0 1",
      "7k/8/8/8/4P3/8/8/7K b - e3 0 1",
      "7k/8/8/4p3/8/8/8/7K w - e6 0 1",
      "7k/8/8/8/4p3/8/8/7K b - e3 0 1",
      "7k/8/8/8/8/8/8/7K w - e3 0 1",
      "7k/8/8/8/4P3/8/8/7K b - e4 0 1",
      "7k/8/8/8/4P3/8/8/7K b - i3 0 1",
      "7k/8/8/8/4P3/8/8/7K b -  0 1",
      "k7/8/8/8/8/8/8/K7 w - - -1 1",
      "k7/8/8/8/8/8/8/K7 w - - 0 -1" }

LoadFENs ==
    { "k7/8/8/8/8/8/7q/7K w - - 0 1",
      "k7/8/8/8/8/8/8/Kxxxxxxx w - - 0 1",
      "k7/8/8/8/8/8/7r/7K b - - 0 1",
      "k7/P7/8/8/8/8/8/7K w - - 0 1",
      "k7/ppppppppp/8/8/8/8/8/K7 w - - 0 1",
      "k7/p8/8/8/8/8/8/K7 w - - 0 1",
      "k7/ppppppp/8/8/8/8/8/K7 w - - 0 1",
      "k7/7/8/8/8/8/8/K7 w - - 0 1" }
        \cup FieldFENs

NextLoad ==
    \/ \E FEN \in LoadFENs : LoadPosition(FEN)
    \/ \E move \in MoveInputs : MakeMove(move)
    \/ UnmakeMove

SpecLoad == Init /\ [][NextLoad]_vars

(***************************************************************************)
(* The same calls with the moves of the game of ScholarMate.               *)
(***************************************************************************)
ScholarMoves == BadMoves \cup {ScholarMate[i] : i \in 1..Len(ScholarMate)}

NextScholar ==
    \/ \E move \in ScholarMoves : MakeMove(move)
    \/ UnmakeMove

SpecScholar == Init /\ [][NextScholar]_vars

(***************************************************************************)
(* The same calls with a position loaded in the middle of a game.          *)
(***************************************************************************)
\* the FEN strings loaded once moves are made
LaterFENs == { "k7/8/8/8/8/8/6PK/8 w - - 0 1", "k7/8/8/8/8/8/7r/7K b - - 0 1" }

\* LoadPosition called after a successful MakeMove
LoadPositionLater(FEN) ==
    /\ ~crashed /\ ~g.err
    /\ g.loads < MaxLoads /\ g.made > MaxMadeBeforeLoad
    /\ LET returns(r) == Ends(r.c, "LoadPosition", FEN, r.err)
       IN  returns(DoLoadPosition(Chess, FEN))

NextLater ==
    \/ \E FEN \in LaterFENs : LoadPositionLater(FEN)
    \/ \E move \in MoveInputs : MakeMove(move)
    \/ UnmakeMove

SpecLater == Init /\ [][NextLater]_vars

(***************************************************************************)
(* The two conversions between coordinates and square names, called on     *)
(* their own: the inputs are drawn at the start, and each call keeps what   *)
(* it was given and what it returned.                                       *)
(***************************************************************************)
\* how far beyond the board the coordinates given go
MaxOff == 1

CodecCoordinates ==
    {Coor(x, y) : x \in (0 - MaxOff)..(7 + MaxOff), y \in (0 - MaxOff)..(7 + MaxOff)}

CodecStrings ==
    { "", "a", "4", "a1", "a8", "h1", "h8", "e4", "d5", "a0", "a9", "i1", "A1",
      "1a", "44", "ee", "a-", "-1", " 1", "a ", "+3", "/4", "e2e4", "e44", "a1 " }

InitCodec ==
    /\ board = DefaultChessBoard
    /\ turn = White
    /\ movesCount = 1
    /\ halfMoves = 0
    /\ enPassantSquare = ""
    /\ availableCastles = "KQkq"
    /\ actualFEN = "rnbqkbnr/pppppppp/8/8/8/8/PPPPPPPP/RNBQKBNR w KQkq - 0 1"
    /\ moves = << "a2a3", "a2a4", "b2b3", "b2b4", "c2c3", "c2c4", "d2d3", "d2d4",
                  "e2e3", "e2e4", "f2f3", "f2f4", "g2g3", "g2g4", "h2h3", "h2h4",
                  "b1a3", "b1c3", "g1f3", "g1h3" >>
    /\ blackKingPosition = Coor(4, 0)
    /\ whiteKingPosition = Coor(4, 7)
    /\ check = FALSE
    /\ checkmate = FALSE
    /\ stalemate = FALSE
    /\ history = <<>>
    /\ crashed = FALSE
    /\ \E c \in CodecCoordinates, s \in CodecStrings :
           g = [op |-> "New", arg |-> s, coor |-> c, text |-> "", out |-> Coor(0, 0),
                err |-> FALSE]

\* CoordinateToAlgebraic(g.coor)
CallCoordinateToAlgebraic ==
    /\ g.op = "New"
    /\ g' = [g EXCEPT !.op = "CoordinateToAlgebraic", !.text = CoordinateToAlgebraic(g.coor)]
    /\ UNCHANGED <<progVars, crashed>>

\* AlgebraicToCoordinate(g.arg)
CallAlgebraicToCoordinate ==
    /\ g.op = "New"
    /\ LET r == AlgebraicToCoordinate(g.arg)
       IN  g' = [g EXCEPT !.op = "AlgebraicToCoordinate", !.out = r.coor, !.err = r.err]
    /\ UNCHANGED <<progVars, crashed>>

\* AlgebraicToCoordinate(CoordinateToAlgebraic(g.coor))
CallBack ==
    /\ g.op = "CoordinateToAlgebraic"
    /\ LET r == AlgebraicToCoordinate(g.text)
       IN  g' = [g EXCEPT !.op = "Back", !.out = r.coor, !.err = r.err]
    /\ UNCHANGED <<progVars, crashed>>

NextCodec ==
    \/ CallCoordinateToAlgebraic
    \/ CallAlgebraicToCoordinate
    \/ CallBack

SpecCodec == InitCodec /\ [][NextCodec]_vars

(***************************************************************************)
(* The position on the board, read from the board itself: where the kings  *)
(* are, whether one of them is attacked, and which moves are legal.        *)
(***************************************************************************)
Range(list) == {list[i] : i \in 1..Len(list)}

OtherColor(color) == IF color = White THEN Black ELSE White

\* a king of the given color stands on a square that is the target of a
\* pseudo-legal move of the other color
AttackedIn(c, color) ==
    LET ks == kingSquares(c.board, BitOr(King, color))
        opp == availableMoves([c EXCEPT !.turn = OtherColor(color)])
    IN  \E i \in 1..Len(ks) : destinationMatch(opp, ks[i]).v

\* the pseudo-legal move m of the side to move leaves its king, and on a
\* castle the square the king passes, out of the targets of the opponent
LegalAfter(c, m) ==
    LET c1 == makeMove(c, m)
    IN  /\ ~AttackedIn(c1, c.turn)
        /\ isCastleMove(c, m) => ~destinationMatch(availableMoves(c1), castleKingWay[m]).v

PseudoLegalMoves(c) == {m \in Range(availableMoves(c)) : Len(m) >= 4}

\* the legal moves of the side to move in the position on the board
TrueLegalMoves(c) == {m \in PseudoLegalMoves(c) : LegalAfter(c, m)}

\* what a failed call must leave as it was
Observed ==
    <<board, turn, availableCastles, enPassantSquare, halfMoves, movesCount,
      actualFEN, moves, check, checkmate, stalemate, history>>

(***************************************************************************)
(* The claims.                                                             *)
(***************************************************************************)
\* the call that just returned, without an error and without a crash
Returned(op) == ~crashed /\ ~g.err /\ g.op = op

\* C1: MakeMove(m) and then UnmakeMove(), from a position reached through
\* LoadPosition and MakeMove alone, leave FEN() equal to what it was before
\* MakeMove(m).
C1_UnmakeRestoresFEN ==
    (Returned("UnmakeMove") /\ g.pre = "MakeMove" /\ g.unmade = 1) => actualFEN = g.preFen

\* C2: a LoadPosition call that returns an error leaves the board, the side
\* to move, the castling rights, the en-passant square, both counters, both
\* king locations, the cached FEN, the cached moves and the history as they
\* were before the call.
C2_FailedLoadChangesNothing ==
    [][(g'.op = "LoadPosition" /\ g'.err) =>
          UNCHANGED <<board, turn, availableCastles, enPassantSquare, halfMoves,
                      movesCount, whiteKingPosition, blackKingPosition, actualFEN,
                      moves, history>>]_vars

\* a LoadPosition call has failed on a position that is not legal, after
\* the board and the properties were set, in a game with a move made
C2_Witness ==
    /\ g.op = "LoadPosition" /\ g.err
    /\ g.arg = "k7/8/8/8/8/8/7r/7K b - - 0 1"
    /\ Len(history) > 0

\* C3: MakeMove(s) with a string s that is no legal move of the position on
\* the board returns an error and leaves the board, the position state, the
\* cached FEN, the cached moves, the flags and the history as they were.
C3_IllegalMoveRejected ==
    [][(g'.op = "MakeMove" /\ g'.arg \notin TrueLegalMoves(Chess)) =>
          (g'.err /\ UNCHANGED Observed)]_vars

\* C4: in every state the board holds exactly one white king and exactly
\* one black king.
C4_OneKingEach ==
    ~crashed => /\ Len(kingSquares(board, BitOr(King, White))) = 1
                /\ Len(kingSquares(board, BitOr(King, Black))) = 1

\* C5: a pseudo-legal move of the side to move is in the legal-move set
\* exactly if it leaves the mover's king (and on a castle the square the king
\* passes) out of the targets of the opponent's pseudo-legal moves; and no
\* move of AvailableMoves() leaves the mover's king capturable.
C5_LegalIffKingSafe ==
    ~crashed =>
        /\ \A m \in PseudoLegalMoves(Chess) : Contains(moves, m) <=> LegalAfter(Chess, m)
        /\ \A m \in Range(moves) : ~AttackedIn(makeMove(Chess, m), turn)

\* C6: after a LoadPosition or MakeMove call that returns no error,
\* IsCheckmate() says that the side to move has no legal move and its king is
\* attacked, IsStalemate() that it has no legal move and its king is not
\* attacked, IsCheck() that its king is attacked and it has a legal move.
C6_FlagsDescribePosition ==
    (Returned("LoadPosition") \/ Returned("MakeMove")) =>
        /\ checkmate <=> (TrueLegalMoves(Chess) = {} /\ AttackedIn(Chess, turn))
        /\ stalemate <=> (TrueLegalMoves(Chess) = {} /\ ~AttackedIn(Chess, turn))
        /\ check <=> (TrueLegalMoves(Chess) # {} /\ AttackedIn(Chess, turn))

\* C7: after any calls, AvailableMoves() is the set of the legal moves of the
\* side to move in the position on the board.
C7_MovesAreTheLegalMoves ==
    ~crashed => Range(moves) = TrueLegalMoves(Chess)

\* C8: after any calls, FEN() is the serialization of the live state: the
\* eight ranks of the board, the side to move, the castling rights, the
\* en-passant square and both counters.
C8_FENIsSerialization ==
    ~crashed => actualFEN = calculateFEN(Chess, <<>>)

\* C9: after UnmakeMove() undoes a MakeMove, IsCheck(), IsCheckmate() and
\* IsStalemate() are what they were before that MakeMove.
C9_UnmakeRestoresFlags ==
    (Returned("UnmakeMove") /\ g.pre = "MakeMove" /\ g.unmade = 1) =>
        <<check, checkmate, stalemate>> = g.preFlags

\* C10: after a LoadPosition(f) call that returns no error, FEN() is f,
\* character for character.
C10_LoadedFENIsGiven == Returned("LoadPosition") => actualFEN = g.arg

\* a FEN that is not the serialization of its board has been loaded
C10_Witness ==
    Returned("LoadPosition") /\ g.arg = "k7/8/8/44/8/8/8/K7 w - - 0 1"

\* the king way of the castle move m is the target of a pseudo-legal move of
\* the other side in the position after the king's side has made m
KingWayAttacked(c, m) ==
    LET c1 == makeMove([c EXCEPT !.turn = castlesMoves[m]], m)
    IN  destinationMatch(availableMoves(c1), castleKingWay[m]).v

\* the castle moves of AvailableMoves(): the king of the move's side stands on
\* the origin
ListedCastles ==
    {m \in Range(moves) \cap DOMAIN castlesMoves :
        Square(board, AlgebraicToCoordinate(SubSeq(m, 1, 2)).coor).p
            = BitOr(King, castlesMoves[m])}

\* C11: a castle move is not among the legal moves when the square the king
\* passes is the target of a pseudo-legal move of the opponent in the
\* position after the castle.
C11_NoCastleThroughAttack ==
    ~crashed => \A m \in ListedCastles : ~KingWayAttacked(Chess, m)

\* the step is a call of MakeMove that returns no error
Moves == g'.op = "MakeMove" /\ ~g'.err /\ ~crashed' /\ g'.made = g.made + 1

\* the origin and the target of the move of the step
MoveOrigin == AlgebraicToCoordinate(SubSeq(g'.arg, 1, 2)).coor

MoveTarget == AlgebraicToCoordinate(SubSeq(g'.arg, 3, 4)).coor

\* C12: when the side to move makes a pawn move onto the en-passant square,
\* the pawn of the other side on the target's file and the origin's rank is
\* removed, the capturing pawn stands on the target, the half-move clock is 0
\* and the en-passant square is cleared; from
\* 7k/8/8/3pP3/8/8/8/7K w - d6 0 1 the move e5d6 gives the FEN
\* 7k/8/3P4/8/8/8/8/7K b - - 0 1.
C12_EnPassantCapture ==
    [][/\ ( /\ Moves
            /\ enPassantSquare # ""
            /\ SubSeq(g'.arg, 3, 4) = enPassantSquare
            /\ Square(board, MoveOrigin).p = BitOr(Pawn, turn) )
          => /\ Square(board, Coor(MoveTarget.X, MoveOrigin.Y)).p = BitOr(Pawn, OtherColor(turn))
             /\ Square(board', Coor(MoveTarget.X, MoveOrigin.Y)).p = Empty
             /\ Square(board', MoveTarget).p = BitOr(Pawn, turn)
             /\ halfMoves' = 0
             /\ enPassantSquare' \in {"", "-"}
       /\ ( /\ Moves
            /\ Returned("LoadPosition")
            /\ g.arg = "7k/8/8/3pP3/8/8/8/7K w - d6 0 1"
            /\ g'.arg = "e5d6" )
          => actualFEN' = "7k/8/3P4/8/8/8/8/7K b - - 0 1"
      ]_vars

\* the castling rights of a color, as the letters of the FEN
CastleLetters(color) == IF color = White THEN {"K", "Q"} ELSE {"k", "q"}

\* C13: a castle move puts the king on its target, two files from its home
\* square, and the rook of the corner on the square the king passes, leaves
\* the king's home square and the corner empty and takes both castling rights
\* from the mover; from k7/8/8/8/8/8/8/4K2R w K - 0 1 the move e1g1 gives the
\* FEN k7/8/8/8/8/8/8/5RK1 b - - 1 1.
C13_CastleMovesKingAndRook ==
    [][/\ ( /\ Moves
            /\ g'.arg \in DOMAIN castlesMoves
            /\ castlesMoves[g'.arg] = turn
            /\ Square(board, MoveOrigin).p = BitOr(King, turn) )
          => /\ Square(board', MoveTarget).p = BitOr(King, turn)
             /\ Square(board', castleKingWay[g'.arg]).p = BitOr(Rook, turn)
             /\ Square(board', MoveOrigin).p = Empty
             /\ Square(board', castleRook[g'.arg]).p = Empty
             /\ \A letter \in CastleLetters(turn) : ~StrContains(availableCastles', letter)
       /\ ( /\ Moves
            /\ Returned("LoadPosition")
            /\ g.arg = "k7/8/8/8/8/8/8/4K2R w K - 0 1"
            /\ g'.arg = "e1g1" )
          => actualFEN' = "k7/8/8/8/8/8/8/5RK1 b - - 1 1"
      ]_vars

PromotionLetters == {"q", "r", "b", "n"}

\* C14: a legal 5-character move puts a piece of the type its fifth letter
\* names, in the color of the side that moves, on the target and empties the
\* origin, so no pawn is left on the target; and no move of 5 characters among
\* the legal moves ends in a letter other than q, r, b and n.
C14_PromotionPlacesPiece ==
    [][/\ (Moves /\ Len(g'.arg) = 5 /\ g'.arg \in TrueLegalMoves(Chess))
          => /\ SubSeq(g'.arg, 5, 5) \in PromotionLetters
             /\ Square(board', MoveTarget).p
                    = BitOr(PiecesWithoutColor(SubSeq(g'.arg, 5, 5)), turn)
             /\ Square(board', MoveTarget).p # BitOr(Pawn, turn)
             /\ Square(board', MoveOrigin).p = Empty
       /\ ~crashed'
          => \A i \in 1..Len(moves') :
                 Len(moves'[i]) = 5 => SubSeq(moves'[i], 5, 5) \in PromotionLetters
      ]_vars

\* h7h8n has been made from k7/7P/8/8/8/8/8/K7 w - - 0 1: a white knight on h8
C14_Witness ==
    /\ Returned("MakeMove") /\ g.arg = "h7h8n" /\ g.unmade = 0
    /\ Square(board, Coor(7, 0)).p = BitOr(Knight, White)
    /\ Square(board, Coor(7, 1)).p = Empty

\* C15: in the state New() produces the legal moves are exactly 20: the 16
\* single and double pushes of the pawns from a2a3 to h2h4 and the knight
\* moves b1a3, b1c3, g1f3 and g1h3.
C15_TwentyMovesAtStart ==
    g.op = "New"
    => /\ Len(moves) = 20
       /\ Range(moves) =
              { "a2a3", "a2a4", "b2b3", "b2b4", "c2c3", "c2c4", "d2d3", "d2d4",
                "e2e3", "e2e4", "f2f3", "f2f4", "g2g3", "g2g4", "h2h3", "h2h4",
                "b1a3", "b1c3", "g1f3", "g1h3" }
       /\ Range(moves) = TrueLegalMoves(Chess)

\* the state New() produces, with a list of moves
C15_Witness == g.op = "New" /\ history = <<>> /\ moves # <<>>

\* C16: from New(), each of the seven moves of ScholarMate is accepted in its
\* turn, and after the seventh FEN() is
\* r1bqkb1r/pppp1Qpp/2n2n2/4p3/2B1P3/8/PPPP1PPP/RNB1K1NR b KQkq - 0 4.
C16_ScholarMateIsPlayed ==
    [][(g'.op = "MakeMove" /\ OnLine(g'.arg))
          => /\ ~g'.err /\ ~crashed'
             /\ Played' = SubSeq(ScholarMate, 1, Len(history) + 1)
             /\ Played' = ScholarMate
                => actualFEN' = "r1bqkb1r/pppp1Qpp/2n2n2/4p3/2B1P3/8/PPPP1PPP/RNB1K1NR b KQkq - 0 4"
      ]_vars

\* the seven moves have been made
C16_Witness == Returned("MakeMove") /\ g.unmade = 0 /\ g.loads = 0 /\ Played = ScholarMate

\* what the caller can read of the position: the board, the position state
\* as FEN() would write it, FEN(), the set AvailableMoves() and the flags
Readable ==
    <<board, turn, availableCastles, CmpOr(enPassantSquare, "-"), halfMoves, movesCount,
      actualFEN, Range(moves), check, checkmate, stalemate>>

\* C17: UnmakeMove() with an empty history changes nothing: the board, the
\* position state, FEN(), AvailableMoves() and the check flags are after the
\* call what they were before it.
C17_UnmakeOnEmptyHistory ==
    [][(g'.op = "UnmakeMove" /\ history = <<>>) => (~crashed' /\ Readable' = Readable)]_vars

\* the position the string FEN describes: ok tells that the string passes
\* every test of loadPosition before the one of isPositionLegal, and c is the
\* struct that test is made on
Described(c, FEN) ==
    LET fenRows == Split(FEN, "/")
        none == [ok |-> FALSE, c |-> c]
        kings(brd, whiteKings, blackKings) ==
            IF Len(whiteKings) # 1 \/ Len(blackKings) # 1 THEN none
            ELSE LET sp == setProperties([c EXCEPT !.board = brd], FEN)
                 IN  IF sp.err THEN none
                     ELSE [ok |-> TRUE,
                           c |-> [sp.c EXCEPT !.whiteKingPosition = whiteKings[1],
                                              !.blackKingPosition = blackKings[1]]]
        rows(parsed) ==
            IF parsed.st # "ok" THEN none
            ELSE kings(parsed.brd, kingSquares(parsed.brd, BitOr(King, White)),
                       kingSquares(parsed.brd, BitOr(King, Black)))
    IN  IF Len(fenRows) # 8 THEN none
        ELSE IF Len(Split(fenRows[8], " ")) # 6 THEN none
        ELSE rows(parseRows([fenRows EXCEPT ![8] = Split(fenRows[8], " ")[1]], 0, <<>>))

\* the pseudo-legal moves of the side to move that can capture: all but the
\* moves of a pawn straight ahead
CapturingMoves(c) ==
    {m \in PseudoLegalMoves(c) :
        ~ /\ BitClear(Square(c.board, AlgebraicToCoordinate(SubSeq(m, 1, 2)).coor).p,
                      BitOr(White, Black)) = Pawn
          /\ SubSeq(m, 1, 1) = SubSeq(m, 3, 3)}

\* the side to move could capture the king of the other side
CouldCaptureKing(c) ==
    \E m \in CapturingMoves(c) :
        SubSeq(m, 3, 4) = CoordinateToAlgebraic(kingsPosition(c, OtherColor(c.turn)))

\* C18: LoadPosition(f), f passing every other test, returns the error of the
\* position legality exactly when the side to move of f could capture the king
\* of the other side; a position where only the side to move is in check is
\* accepted.
C18_IllegalExactlyWhenKingCapturable ==
    [][(g'.op = "LoadPosition" /\ Described(Chess, g'.arg).ok)
          => /\ ~crashed'
             /\ g'.err <=> CouldCaptureKing(Described(Chess, g'.arg).c)
      ]_vars

\* the rank segments of the placement field of FEN
Placement(FEN) == Split(Split(FEN, " ")[1], "/")

\* the squares a rank segment stands for, a digit counted as that many
RECURSIVE RankSquares(_)
RankSquares(segment) ==
    IF segment = "" THEN 0
    ELSE (IF Head(segment) \in Digits THEN DigitVal(Head(segment)) ELSE 1)
         + RankSquares(Tail(segment))

WrongRank(FEN) ==
    \E i \in 1..Len(Placement(FEN)) : RankSquares(Placement(FEN)[i]) # 8

\* C19: LoadPosition returns an error, with no crash and nothing loaded, when
\* a rank segment of the placement field stands for more or for fewer than 8
\* squares.
C19_WrongRankIsAnError ==
    [][(g'.op = "LoadPosition" /\ WrongRank(g'.arg))
          => (~crashed' /\ g'.err /\ Observed' = Observed)]_vars

\* the characters of a rank segment: the digits 1 to 8 and the piece letters
PlacementChars ==
    {"1", "2", "3", "4", "5", "6", "7", "8"}
        \cup {"p", "n", "b", "r", "q", "k", "P", "N", "B", "R", "Q", "K"}

ForeignChar(FEN) ==
    \E i \in 1..Len(Placement(FEN)) :
        \E j \in 1..Len(Placement(FEN)[i]) :
            SubSeq(Placement(FEN)[i], j, j) \notin PlacementChars

\* C20: LoadPosition returns an error when the placement field holds a
\* character that is no digit from 1 to 8 and no piece letter; no such
\* character is loaded as an empty square or as a piece.
C20_ForeignCharIsAnError ==
    (g.op = "LoadPosition" /\ ForeignChar(g.arg)) => (g.err /\ ~crashed)

\* the fields of FEN, the placement being the first
Fields(FEN) == Split(FEN, " ")

\* FEN with its k-th field replaced by value
WithField(FEN, k, value) ==
    Join([i \in 1..Len(Fields(FEN)) |-> IF i = k THEN value ELSE Fields(FEN)[i]], " ")

\* FEN has six fields and, with value as its k-th, LoadPosition loads it
LoadsWith(c, FEN, k, value) ==
    /\ Len(Fields(FEN)) = 6
    /\ LET r == loadPosition(c, WithField(FEN, k, value))
       IN  ~r.err /\ ~r.c.panic

\* "-", or one or more letters of K, Q, k and q with none twice
CastlesWellFormed(castles) ==
    \/ castles = "-"
    \/ /\ castles # ""
       /\ \A i \in 1..Len(castles) : SubSeq(castles, i, i) \in {"K", "Q", "k", "q"}
       /\ \A i, j \in 1..Len(castles) :
              i # j => SubSeq(castles, i, i) # SubSeq(castles, j, j)

\* C21: LoadPosition accepts the castling field exactly when it is "-" or a
\* non-empty string of distinct letters of K, Q, k and q (the other fields
\* being such that the string loads with "-" in its place).
C21_CastlingFieldAccepted ==
    [][(g'.op = "LoadPosition" /\ LoadsWith(Chess, g'.arg, 3, "-"))
          => /\ ~crashed'
             /\ g'.err <=> ~CastlesWellFormed(Fields(g'.arg)[3])
      ]_vars

FileLetters == "abcdefgh"

\* the index X of a file letter
FileOf(ch) == CHOOSE x \in 0..7 : SubSeq(FileLetters, x + 1, x + 1) = ch

\* "-", or a square of rank 3 with a white pawn on rank 4 of its file, or a
\* square of rank 6 with a black pawn on rank 5 of its file, on the board brd
EnPassantWellFormed(brd, square) ==
    \/ square = "-"
    \/ /\ Len(square) = 2
       /\ StrContains(FileLetters, SubSeq(square, 1, 1))
       /\ \/ /\ SubSeq(square, 2, 2) = "3"
             /\ Square(brd, Coor(FileOf(SubSeq(square, 1, 1)), 4)).p = BitOr(Pawn, White)
          \/ /\ SubSeq(square, 2, 2) = "6"
             /\ Square(brd, Coor(FileOf(SubSeq(square, 1, 1)), 3)).p = BitOr(Pawn, Black)

\* C22: LoadPosition accepts the en-passant field exactly when it is "-", a
\* square of rank 3 with a white pawn on rank 4 of its file, or a square of
\* rank 6 with a black pawn on rank 5 of its file (the other fields being such
\* that the string loads with "-" in its place).
C22_EnPassantFieldAccepted ==
    [][(g'.op = "LoadPosition" /\ LoadsWith(Chess, g'.arg, 4, "-"))
          => /\ ~crashed'
             /\ g'.err <=> ~EnPassantWellFormed(
                               Described(Chess, WithField(g'.arg, 4, "-")).c.board,
                               Fields(g'.arg)[4])
      ]_vars

\* a string with the en-passant field e3 has been loaded, a white pawn on e4
C22_Witness ==
    /\ Returned("LoadPosition") /\ Fields(g.arg)[4] = "e3"
    /\ enPassantSquare = "e3"
    /\ Square(board, Coor(4, 4)).p = BitOr(Pawn, White)

\* the decimal representation of a non-negative integer
Decimal(s) == s # "" /\ AllDigits(s)

\* C23: LoadPosition fails unless the half-move field and the full-move field
\* are both decimal representations of non-negative integers, and the
\* half-move clock of the game is never negative
C23_CountersAreDecimals ==
    [][(g'.op = "LoadPosition" /\ Len(Fields(g'.arg)) = 6)
          => /\ (~Decimal(Fields(g'.arg)[5]) \/ ~Decimal(Fields(g'.arg)[6]))
                    => (g'.err /\ ~crashed')
             /\ halfMoves' >= 0]_vars

\* the piece the board brd holds on the square named by two characters
PieceAt(brd, square) == Square(brd, AlgebraicToCoordinate(square).coor).p

\* whether move, made on the board brd, is a promotion, a capture (the one
\* in passing included: a pawn changing file) or the move of a pawn
ResetsClock(brd, move) ==
    \/ Len(move) = 5
    \/ PieceAt(brd, SubSeq(move, 3, 4)) # Empty
    \/ BitClear(PieceAt(brd, SubSeq(move, 1, 2)), BitOr(White, Black)) = Pawn

\* C24: after a successful MakeMove the half-move clock is 0 where the move
\* was a promotion, a capture or a pawn move, and one more than before
\* otherwise
C24_HalfMoveClock ==
    [][Moves => halfMoves' = IF ResetsClock(board, g'.arg) THEN 0 ELSE halfMoves + 1]_vars

\* C25: a successful MakeMove adds one to the full-move counter where Black
\* was to move and leaves it as it was where White was to move
C25_FullMoveCounter ==
    [][Moves => movesCount' = IF turn = Black THEN movesCount + 1 ELSE movesCount]_vars

\* the rank a square named by two characters stands on, 1 to 8
RankOf(square) == 8 - AlgebraicToCoordinate(square).coor.Y

\* the en-passant field after move made on the board brd: the square a pawn
\* advancing two ranks passes over, "-" after any other move
PassedSquare(brd, move) ==
    LET from == RankOf(SubSeq(move, 1, 2))
        to == RankOf(SubSeq(move, 3, 4))
    IN  IF /\ Len(move) = 4
           /\ BitClear(PieceAt(brd, SubSeq(move, 1, 2)), BitOr(White, Black)) = Pawn
           /\ (to = from + 2 \/ to = from - 2)
        THEN SubSeq(move, 1, 1) \o IntToStr((from + to) \div 2)
        ELSE "-"

\* C26: after a successful MakeMove the en-passant field of FEN() names the
\* square passed over where the move was the advance of a pawn by two ranks,
\* and is "-" after any other move
C26_EnPassantSquareSet ==
    [][Moves => Fields(actualFEN')[4] = PassedSquare(board, g'.arg)]_vars

C26_Witness ==
    /\ Returned("MakeMove") /\ g.arg = "e7e5" /\ g.unmade = 0
    /\ Fields(actualFEN)[4] = "e6"
    /\ Fields(history[Len(history)].fen)[4] = "e3"

\* the home square of the king and the corner of the rook of each castling
\* letter, with the two pieces
CastleSquares ==
    [K |-> [king |-> "e1", rook |-> "h1", color |-> White],
     Q |-> [king |-> "e1", rook |-> "a1", color |-> White],
     k |-> [king |-> "e8", rook |-> "h8", color |-> Black],
     q |-> [king |-> "e8", rook |-> "a8", color |-> Black]]

\* the king and the rook of the castling letter stand on their squares of brd
HoldsCastle(brd, letter) ==
    /\ PieceAt(brd, CastleSquares[letter].king) = BitOr(King, CastleSquares[letter].color)
    /\ PieceAt(brd, CastleSquares[letter].rook) = BitOr(Rook, CastleSquares[letter].color)

\* C27: after a successful MakeMove a castling letter is in the castling
\* field only if it was there before the move and the king and the rook it
\* stands for are on their home squares
C27_CastlingRightsOnlyShrink ==
    [][Moves => \A letter \in DOMAIN CastleSquares :
                    StrContains(Fields(actualFEN')[3], letter)
                        => /\ StrContains(Fields(actualFEN)[3], letter)
                           /\ HoldsCastle(board', letter)]_vars

C27_Witness ==
    /\ Returned("MakeMove") /\ g.arg = "h1h2" /\ g.unmade = 0
    /\ Fields(history[Len(history)].fen)[3] = "K"
    /\ Fields(actualFEN)[3] = "-"
    /\ PieceAt(board, "e1") = BitOr(King, White)

\* the name of the square of a coordinate of the board: the files a to h
\* for X = 0 to 7, the ranks 8 to 1 for Y = 0 to 7
RankDigits == "87654321"
SquareName(c) ==
    SubSeq(FileLetters, c.X + 1, c.X + 1) \o SubSeq(RankDigits, c.Y + 1, c.Y + 1)

\* the names of the 64 squares
SquareNames == {SquareName(Coor(x, y)) : x \in 0..7, y \in 0..7}

Frame(c) ==
    << c.board, c.turn, CmpOr(c.availableCastles, "-"), CmpOr(c.enPassantSquare, "-"),
       c.halfMoves, c.movesCount, c.whiteKingPosition, c.blackKingPosition,
       Len(c.history) >>

\* the struct legalMoves is called on in the call of op with the argument arg
Entered(c, op, arg) ==
    CASE op = "LoadPosition" -> [loadPosition(c, arg).c EXCEPT !.actualFEN = arg]
      [] op = "MakeMove" ->
            LET c1 == makeMove(c, arg)
            IN  [c1 EXCEPT !.actualFEN = calculateFEN(c1, <<arg>>)]
      [] op = "UnmakeMove" -> unmakeMove(c)

\* C29: legalMoves leaves the board, the side to move, the castling rights,
\* the en-passant square, the counters, the places of the kings and the
\* depth of the history as they were when it was called, in LoadPosition,
\* in MakeMove and in UnmakeMove
C29_LegalMovesLeavesState ==
    [][(g'.op \in {"LoadPosition", "MakeMove", "UnmakeMove"} /\ ~g'.err /\ ~crashed')
          => Frame(Chess') = Frame(Entered(Chess, g'.op, g'.arg))]_vars

\* C30: the depth of the history is 0 after a successful LoadPosition, one
\* more after a successful MakeMove, one less after an UnmakeMove that finds
\* a move to revert, and what it was after any other call
C30_HistoryDepth ==
    [][~crashed' =>
          Len(history') =
              CASE g'.err -> Len(history)
                [] g'.op = "LoadPosition" -> 0
                [] g'.op = "MakeMove" -> Len(history) + 1
                [] g'.op = "UnmakeMove" -> IF Len(history) > 0 THEN Len(history) - 1 ELSE 0
                [] OTHER -> Len(history)]_vars

\* the board and the position state of the game
Position ==
    << board, turn, CmpOr(availableCastles, "-"), CmpOr(enPassantSquare, "-"),
       halfMoves, movesCount >>

\* C31: from a position that is checkmate or stalemate no MakeMove call
\* succeeds, and every call but LoadPosition leaves the board, the position
\* state and the classification as they are
C31_TerminalUntilLoad ==
    [][((checkmate \/ stalemate) /\ g'.op # "LoadPosition")
          => /\ ~crashed'
             /\ g'.op = "MakeMove" => g'.err
             /\ Position' = Position
             /\ checkmate' = checkmate /\ stalemate' = stalemate]_vars

\* C32: after every call the cached place of the white king is the square
\* holding the white king, and the cached place of the black king the
\* square holding the black king
C32_KingLocations ==
    ~crashed =>
        /\ Square(board, whiteKingPosition).p = BitOr(King, White)
        /\ Square(board, blackKingPosition).p = BitOr(King, Black)

\* the moves the generator gives for the pieces of a color on the board of
\* the game
Generated(color) == PseudoLegalMoves([Chess EXCEPT !.turn = color])

Origin(m) == AlgebraicToCoordinate(SubSeq(m, 1, 2)).coor

Target(m) == AlgebraicToCoordinate(SubSeq(m, 3, 4)).coor

\* the rank, as a row of the board, on which the pawns of a color start
HomeRow(color) == IF color = White THEN 6 ELSE 1

\* m moves a pawn of the color two squares along its file
DoublePush(color, m) ==
    /\ Len(m) = 4
    /\ Square(board, Origin(m)).p = BitOr(Pawn, color)
    /\ Origin(m).X = Target(m).X
    /\ Target(m).Y - Origin(m).Y \in {2, -2}

\* C33: the generator gives the double push of a pawn only from the home
\* rank of the pawn (rank 2 for White, rank 7 for Black) and only when the
\* square in front of the pawn and the square behind it are both empty.
C33_DoublePushNeedsClearWay ==
    ~crashed =>
        \A color \in {White, Black} : \A m \in Generated(color) :
            DoublePush(color, m) =>
                /\ Origin(m).Y = HomeRow(color)
                /\ Square(board, Coor(Origin(m).X, (Origin(m).Y + Target(m).Y) \div 2)).p = Empty
                /\ Square(board, Target(m)).p = Empty
\* m moves a pawn of the color one square along its file, the promotions
\* included
SinglePush(color, m) ==
    /\ Square(board, Origin(m)).p = BitOr(Pawn, color)
    /\ Origin(m).X = Target(m).X
    /\ Target(m).Y - Origin(m).Y \in {1, -1}

\* C34: the generator gives the move of a pawn one square straight ahead,
\* each of the four promotions on the last rank included, only when the
\* square ahead is empty.
C34_PushNeedsEmptySquare ==
    ~crashed =>
        \A color \in {White, Black} : \A m \in Generated(color) :
            SinglePush(color, m) => Square(board, Target(m)).p = Empty
\* m is one of the four castles, of a king of the color on its home square
CastleOf(color, m) ==
    /\ m \in DOMAIN castlesMoves
    /\ Square(board, Origin(m)).p = BitOr(King, color)

\* the squares between the king that castles with m and the corner of the
\* board on that side
Between(m) ==
    { Coor(x, Origin(m).Y) :
        x \in IF Target(m).X > Origin(m).X THEN (Origin(m).X + 1)..6 ELSE 1..(Origin(m).X - 1) }

\* C35: the generator gives a castle only when every square between the home
\* square of the king and the corner of the rook is empty: the f and g files
\* on the king side, the b, c and d files on the queen side.
C35_CastleNeedsEmptySquares ==
    ~crashed =>
        \A color \in {White, Black} : \A m \in Generated(color) :
            CastleOf(color, m) => \A sq \in Between(m) : Square(board, sq).p = Empty
\* m moves a king of the color two squares along its rank, which only
\* kingCastleMoves gives
TwoSquareKingMove(color, m) ==
    /\ Len(m) = 4
    /\ Square(board, Origin(m)).p = BitOr(King, color)
    /\ Origin(m).Y = Target(m).Y
    /\ Target(m).X - Origin(m).X \in {2, -2}

\* the corner of the board on the side of m
CornerOf(m) == Coor(IF Target(m).X > Origin(m).X THEN 7 ELSE 0, Origin(m).Y)

\* C36: in every position that was loaded or played, the generator gives a
\* castle only to a king on its home square (e1 for White, e8 for Black) and
\* only when the corner on that side holds a rook of the king's color.
C36_CastleNeedsKingAndRook ==
    ~crashed =>
        \A color \in {White, Black} : \A m \in Generated(color) :
            TwoSquareKingMove(color, m) =>
                /\ Origin(m) = Coor(4, IF color = White THEN 7 ELSE 0)
                /\ Square(board, CornerOf(m)).p = BitOr(Rook, color)
\* a piece of the other color could capture on a square of the board that
\* holds a king of the color
InCheck(color) ==
    \E m \in CapturingMoves([Chess EXCEPT !.turn = OtherColor(color)]) :
        Square(board, Target(m)).p = BitOr(King, color)

\* C37: while the king of the side to move stands in check on its home
\* square, the legal moves of the game hold no castle.
C37_NoCastleOutOfCheck ==
    ( /\ ~crashed
      /\ Square(board, Coor(4, IF turn = White THEN 7 ELSE 0)).p = BitOr(King, turn)
      /\ InCheck(turn) )
    => \A m \in Range(moves) : ~TwoSquareKingMove(turn, m)
\* C38: after every call the check flag of the game tells whether a piece of
\* the other side could capture on the square of the king of the side to
\* move; a pawn straight in front of the king, which can only push onto that
\* square, does not put the king in check.
C38_CheckIffCapturable ==
    ~crashed => (check <=> InCheck(turn))
AllSquares == {Coor(x, y) : x, y \in 0..7}

\* the directions a rook, a bishop and a queen move along
Straight == {Coor(1, 0), Coor(-1, 0), Coor(0, 1), Coor(0, -1)}

Diagonal == {Coor(1, 1), Coor(-1, 1), Coor(1, -1), Coor(-1, -1)}

DirectionsOf(piece) ==
    LET kind == BitClear(piece, BitOr(White, Black))
    IN  IF kind = Rook THEN Straight
        ELSE IF kind = Bishop THEN Diagonal
        ELSE IF kind = Queen THEN Straight \cup Diagonal
        ELSE {}

\* the square i steps from o in direction d
Along(o, d, i) == Coor(o.X + i * d.X, o.Y + i * d.Y)

\* the square i steps from o in direction d is on the board and every square
\* before it is empty
Reaches(o, d, i) ==
    /\ isValidCoordinate(Along(o, d, i))
    /\ \A j \in 1..(i - 1) : Square(board, Along(o, d, j)).p = Empty

\* the squares a rook, bishop or queen of the color on o may move to
SlideTargets(o, color) ==
    { t \in AllSquares :
        \E d \in DirectionsOf(Square(board, o).p) : \E i \in 1..7 :
            /\ t = Along(o, d, i)
            /\ Reaches(o, d, i)
            /\ BitAnd(Square(board, t).p, color) = Empty }

\* the targets of the moves the generator gives from o
GeneratedTargets(o, color) == {Target(m) : m \in {n \in Generated(color) : Origin(n) = o}}

\* a rook, a bishop or a queen of the color stands on o
SliderOn(o, color) ==
    /\ BitAnd(Square(board, o).p, color) # Empty
    /\ DirectionsOf(Square(board, o).p) # {}

\* C39: the targets the generator gives for a rook, a bishop or a queen are,
\* along each of its directions, the empty squares next to the piece one after
\* the other and the first occupied square when it holds a piece of the other
\* color; nothing beyond that square, off the board or on a piece of its own
\* color.
C39_SlidingTargets ==
    ~crashed =>
        \A color \in {White, Black} : \A o \in AllSquares :
            SliderOn(o, color) => GeneratedTargets(o, color) = SlideTargets(o, color)

\* a slider that takes a piece of the other color at the end of one line and
\* stops before a piece of its own color on another
C39_Witness ==
    /\ ~crashed
    /\ \E color \in {White, Black} : \E o \in AllSquares :
        /\ SliderOn(o, color)
        /\ \E d \in DirectionsOf(Square(board, o).p) : \E i \in 2..7 :
            /\ Reaches(o, d, i)
            /\ BitAnd(Square(board, Along(o, d, i)).p, OtherColor(color)) # Empty
            /\ Along(o, d, i) \in GeneratedTargets(o, color)
        /\ \E d \in DirectionsOf(Square(board, o).p) : \E i \in 2..7 :
            /\ Reaches(o, d, i)
            /\ BitAnd(Square(board, Along(o, d, i)).p, color) # Empty
            /\ Along(o, d, i - 1) \in GeneratedTargets(o, color)
            /\ Along(o, d, i) \notin GeneratedTargets(o, color)
====
